---- MODULE Spec2Model ----
(***************************************************************************)
(* A model of the sdorm object-relational mapper (src/sdorm/sdorm.go):     *)
(* Find, Create, Delete and Update over one table of a relational store.   *)
(* Identifiers and string values are sequences of one-character strings,   *)
(* so that identifier translation (camelToSnake) and the quoting of string *)
(* operands into statement text are computed, not assumed.                 *)
(***************************************************************************)
EXTENDS Integers, Sequences, FiniteSets, TLC

VARIABLES elem, tableExists, tableCols, tableRows, lastRowid, call

vars == <<elem, tableExists, tableCols, tableRows, lastRowid, call>>

(***************************************************************************)
(* Bounds of the model.                                                    *)
(***************************************************************************)
\* most rows the table holds
MaxRows == 2
\* most rowids the store hands out
MaxRowid == 2
\* the size of the arguments of one call: the names of the projection, the
\* conditions of the filter, the pairs of the ordering, the entries of the
\* update set and a limit other than 0 count one each
MaxArgs == 2

(***************************************************************************)
(* Characters.                                                             *)
(***************************************************************************)
UpperSeq ==
  <<"A","B","C","D","E","F","G","H","I","J","K","L","M",
    "N","O","P","Q","R","S","T","U","V","W","X","Y","Z">>

LowerSeq ==
  <<"a","b","c","d","e","f","g","h","i","j","k","l","m",
    "n","o","p","q","r","s","t","u","v","w","x","y","z">>

DigitSeq == <<"0","1","2","3","4","5","6","7","8","9">>

Range(s) == {s[i] : i \in DOMAIN s}

UpperChars == Range(UpperSeq)

LowerChars == Range(LowerSeq)

DigitChars == Range(DigitSeq)

IsUpper(c) == c \in UpperChars

IsLower(c) == c \in LowerChars

IsDigit(c) == c \in DigitChars

IndexOf(c, s) == CHOOSE i \in DOMAIN s : s[i] = c

ToLowerChar(c) == IF IsUpper(c) THEN LowerSeq[IndexOf(c, UpperSeq)] ELSE c

ToLower(s) == [i \in DOMAIN s |-> ToLowerChar(s[i])]

QUOTE == "'"

\* the byte order of the characters the model uses: ' < 0-9 < A-Z < _ < a-z
CharCode(c) ==
  IF c = QUOTE THEN 39
  ELSE IF IsDigit(c) THEN 47 + IndexOf(c, DigitSeq)
  ELSE IF IsUpper(c) THEN 64 + IndexOf(c, UpperSeq)
  ELSE IF c = "_" THEN 95
  ELSE 96 + IndexOf(c, LowerSeq)

(***************************************************************************)
(* camelToSnake: two regular-expression replacements, then lower-casing.   *)
(***************************************************************************)
\* the last index of the run of lower-case letters of s that starts at i
RECURSIVE LowerRunEnd(_, _)
LowerRunEnd(s, i) ==
  IF i < Len(s) /\ IsLower(s[i + 1]) THEN LowerRunEnd(s, i + 1) ELSE i

\* "(.)([A-Z][a-z]+)" matches at position p of s
MatchFirstCapAt(s, p) ==
  /\ p + 2 <= Len(s)
  /\ IsUpper(s[p + 1])
  /\ IsLower(s[p + 2])

\* matchFirstCap.ReplaceAllString(s, "${1}_${2}"), from position p on
RECURSIVE ReplaceFirstCap(_, _)
ReplaceFirstCap(s, p) ==
  IF p > Len(s) THEN <<>>
  ELSE IF MatchFirstCapAt(s, p)
       THEN LET e == LowerRunEnd(s, p + 2)
            IN  <<s[p], "_">> \o SubSeq(s, p + 1, e) \o ReplaceFirstCap(s, e + 1)
       ELSE <<s[p]>> \o ReplaceFirstCap(s, p + 1)

\* "([a-z0-9])([A-Z])" matches at position p of s
MatchAllCapAt(s, p) ==
  /\ p + 1 <= Len(s)
  /\ (IsLower(s[p]) \/ IsDigit(s[p]))
  /\ IsUpper(s[p + 1])

\* matchAllCap.ReplaceAllString(s, "${1}_${2}"), from position p on
RECURSIVE ReplaceAllCap(_, _)
ReplaceAllCap(s, p) ==
  IF p > Len(s) THEN <<>>
  ELSE IF MatchAllCapAt(s, p)
       THEN <<s[p], "_", s[p + 1]>> \o ReplaceAllCap(s, p + 2)
       ELSE <<s[p]>> \o ReplaceAllCap(s, p + 1)

\* the two replacements without the lower-casing
camelToSnakeKeepCase(camel) ==
  ReplaceAllCap(ReplaceFirstCap(camel, 1), 1)

camelToSnake(camel) ==
  ToLower(ReplaceAllCap(ReplaceFirstCap(camel, 1), 1))

(***************************************************************************)
(* Values.  A Go value and a stored column value have the same three       *)
(* fields, so that any two of them can be compared: t is the type, s the   *)
(* characters of a string, n the number of an integer.                     *)
(***************************************************************************)
StrV(s) == [t |-> "string", s |-> s, n |-> 0]

IntV(n) == [t |-> "int", s |-> <<>>, n |-> n]

Int64V(n) == [t |-> "int64", s |-> <<>>, n |-> n]

SqlText(s) == [t |-> "text", s |-> s, n |-> 0]

SqlInteger(n) == [t |-> "integer", s |-> <<>>, n |-> n]

SqlNull == [t |-> "null", s |-> <<>>, n |-> 0]

\* reflect.New(type).Elem(): the zero value of a field type
Zero(type) ==
  IF type = "string" THEN StrV(<<>>)
  ELSE IF type = "int64" THEN Int64V(0)
  ELSE IntV(0)

\* a Go value of the given type holding the number n
Number(type, n) == IF type = "int64" THEN Int64V(n) ELSE IntV(n)

\* the decimal digits of n >= 0, as fmt's %v and %d print them
RECURSIVE Digits(_)
Digits(n) ==
  IF n < 10 THEN <<DigitSeq[n + 1]>>
  ELSE Digits(n \div 10) \o <<DigitSeq[(n % 10) + 1]>>

IsNumeral(s) == Len(s) > 0 /\ \A i \in DOMAIN s : IsDigit(s[i])

\* the number a sequence of decimal digits denotes
RECURSIVE ParseDigits(_)
ParseDigits(s) ==
  IF s = <<>> THEN 0
  ELSE 10 * ParseDigits(SubSeq(s, 1, Len(s) - 1)) + (IndexOf(s[Len(s)], DigitSeq) - 1)

(***************************************************************************)
(* Record types.  A record type is the sequence of its fields in declared  *)
(* order; a field has a name, a Go type and the primary-key tag.           *)
(***************************************************************************)
FullName == <<"F","u","l","l","N","a","m","e">>

Age == <<"A","g","e">>

ID == <<"I","D">>

Author == <<"A","u","t","h","o","r">>

Owner == <<"O","w","n","e","r">>

secret == <<"s","e","c","r","e","t">>

\* a name that is a field of none of the record types
FakeField == <<"F","a","k","e","F","i","e","l","d">>

UserName == <<"U","s","e","r","N","a","m","e">>

\* a field name that differs from ID in the case of a letter only
Id == <<"I","d">>

\* a field name that begins with neither an upper-case nor a lower-case
\* letter; Go does not export the field
Padding == <<"_","p","a","d">>

\* the identifiers of the model, each with its translation
Identifiers == {FullName, Age, ID, Author, Owner, secret, FakeField, UserName, Id, Padding}

Translated == [name \in Identifiers |-> camelToSnake(name)]

\* camelToSnake(name) for an identifier of the model
Snake(name) == Translated[name]

Field(name, type, pk) == [name |-> name, type |-> type, pk |-> pk]

\* type User struct { FullName string; Age int }
User == <<Field(FullName, "string", FALSE), Field(Age, "int", FALSE)>>

\* type Post struct { ID int64 `dorm:"primary_key"`; Author string }
Post == <<Field(ID, "int64", TRUE), Field(Author, "string", FALSE)>>

\* type Account struct { Owner string; secret int }: one field is not exported
Account == <<Field(Owner, "string", FALSE), Field(secret, "int", FALSE)>>

RecordTypes == {User, Post, Account}

\* unicode.IsLower([]rune(colname)[0]) is false
IsVisible(name) == ~IsLower(name[1])

\* the index of the field called name, 0 when the type has none
FieldIndex(type, name) ==
  IF \E i \in DOMAIN type : type[i].name = name
  THEN CHOOSE i \in DOMAIN type : type[i].name = name
  ELSE 0

HasField(type, name) == FieldIndex(type, name) # 0

\* the subsequence of s at the indices that satisfy Keep, in order
RECURSIVE Pick(_, _, _)
Pick(s, keep, i) ==
  IF i > Len(s) THEN <<>>
  ELSE (IF i \in keep THEN <<s[i]>> ELSE <<>>) \o Pick(s, keep, i + 1)

columnNames(type) ==
  LET names == [i \in DOMAIN type |-> Snake(type[i].name)]
  IN  Pick(names, {i \in DOMAIN type : IsVisible(type[i].name)}, 1)

(***************************************************************************)
(* The table.  Its columns are those of the record type's visible fields,  *)
(* in declared order; the column of the primary-key field is the rowid.    *)
(***************************************************************************)
Column(name, affinity, rowid) == [name |-> name, affinity |-> affinity, rowid |-> rowid]

SchemaOf(type) ==
  LET cols == [i \in DOMAIN type |->
                 Column(Snake(type[i].name),
                        IF type[i].type = "string" THEN "text" ELSE "integer",
                        type[i].pk)]
  IN  Pick(cols, {i \in DOMAIN type : IsVisible(type[i].name)}, 1)

\* the index of the column called name, 0 when the table has none
ColIndex(cols, name) ==
  IF \E i \in DOMAIN cols : cols[i].name = name
  THEN CHOOSE i \in DOMAIN cols : cols[i].name = name
  ELSE 0

(***************************************************************************)
(* Statement text.  An operand is written into the statement as text: a    *)
(* string between single quotes, anything else as fmt prints it.  The      *)
(* store reads the text back as a literal.                                 *)
(***************************************************************************)
\* fmt.Sprintf("'%v'", v) for a string, fmt.Sprintf("%v", v) otherwise
FormatOperand(v) ==
  IF v.t = "string" THEN <<QUOTE>> \o v.s \o <<QUOTE>> ELSE Digits(v.n)

Failed == [ok |-> FALSE, val |-> SqlNull]

Parsed(v) == [ok |-> TRUE, val |-> v]

\* the store's reading of a quoted literal: two quotes stand for one, a
\* single quote ends the literal, and nothing may follow it
RECURSIVE Unquote(_, _, _)
Unquote(text, i, acc) ==
  IF i > Len(text) THEN Failed
  ELSE IF text[i] # QUOTE THEN Unquote(text, i + 1, Append(acc, text[i]))
  ELSE IF i < Len(text) /\ text[i + 1] = QUOTE THEN Unquote(text, i + 2, Append(acc, QUOTE))
  ELSE IF i = Len(text) THEN Parsed(SqlText(acc))
  ELSE Failed

\* the store's reading of an operand
ParseLiteral(text) ==
  IF text = <<>> THEN Failed
  ELSE IF text[1] = QUOTE THEN Unquote(text, 2, <<>>)
  ELSE IF IsNumeral(text) THEN Parsed(SqlInteger(ParseDigits(text)))
  ELSE Failed

\* s < t in byte order
RECURSIVE TextLess(_, _)
TextLess(s, t) ==
  IF t = <<>> THEN FALSE
  ELSE IF s = <<>> THEN TRUE
  ELSE IF CharCode(s[1]) # CharCode(t[1]) THEN CharCode(s[1]) < CharCode(t[1])
  ELSE TextLess(Tail(s), Tail(t))

\* the store's order of two values that are not NULL: integers before text
SqlLess(a, b) ==
  IF a.t = "integer" /\ b.t = "integer" THEN a.n < b.n
  ELSE IF a.t = "text" /\ b.t = "text" THEN TextLess(a.s, b.s)
  ELSE a.t = "integer"

\* the store's value of  a <operator> b;  a comparison with NULL is not true
SqlCompare(operator, a, b) ==
  IF a.t = "null" \/ b.t = "null" THEN FALSE
  ELSE IF operator = "<" THEN SqlLess(a, b)
  ELSE IF operator = ">" THEN SqlLess(b, a)
  ELSE IF operator = "=" THEN a = b
  ELSE IF operator = "!=" THEN a # b
  ELSE IF operator = "<=" THEN ~SqlLess(b, a)
  ELSE ~SqlLess(a, b)

(***************************************************************************)
(* The store (the database/sql connection, db.inner).  A statement is the  *)
(* structure of its text.  A WHERE fragment is absent, or the keyword      *)
(* followed by conditions joined by AND; a condition is a column name, an  *)
(* SQL operator and the text of its operands.                              *)
(***************************************************************************)
NoWhere == [present |-> FALSE, conds |-> {}]

Where(conds) == [present |-> TRUE, conds |-> conds]

Condition(col, operator, list, operands) ==
  [col |-> col, operator |-> operator, list |-> list, operands |-> operands]

ASC == <<"A","S","C">>

DESC == <<"D","E","S","C">>

\* the store reads the keywords of a statement without regard to case
StoreDirection(dir) ==
  LET keyword == ToLower(dir)
  IN  IF keyword = <<"a","s","c">> THEN "ASC"
      ELSE IF keyword = <<"d","e","s","c">> THEN "DESC"
      ELSE "error"

\* the store can run the condition: its column exists, its operands are literals
ConditionOK(cols, c) ==
  /\ ColIndex(cols, c.col) # 0
  /\ \A i \in DOMAIN c.operands : ParseLiteral(c.operands[i]).ok
  /\ c.list \/ Len(c.operands) = 1

\* the store can run the WHERE fragment; WHERE followed by nothing is an error
WhereOK(cols, where) ==
  \/ ~where.present
  \/ /\ where.conds # {}
     /\ \A c \in where.conds : ConditionOK(cols, c)

ConditionHolds(cols, row, c) ==
  LET v == row[ColIndex(cols, c.col)]
      lit(i) == ParseLiteral(c.operands[i]).val
  IN  IF c.operator = "IN"
      THEN \E i \in DOMAIN c.operands : SqlCompare("=", v, lit(i))
      ELSE IF c.operator = "NOT IN"
      THEN \/ c.operands = <<>>
           \/ /\ v.t # "null"
              /\ \A i \in DOMAIN c.operands : SqlCompare("!=", v, lit(i))
      ELSE SqlCompare(c.operator, v, lit(1))

RowSelected(cols, row, where) ==
  \A c \in where.conds : ConditionHolds(cols, row, c)

\* the rows of the table the WHERE fragment selects, in the table's order
SelectedRows(cols, rows, where) ==
  Pick(rows, {i \in DOMAIN rows : RowSelected(cols, rows[i], where)}, 1)

\* NULL sorts before every value
SortLess(a, b) ==
  IF a.t = "null" THEN b.t # "null"
  ELSE IF b.t = "null" THEN FALSE
  ELSE SqlLess(a, b)

\* row a sorts strictly before row b under ORDER BY orderBy[k], orderBy[k+1], ...
RECURSIVE RowBefore(_, _, _, _, _)
RowBefore(cols, orderBy, k, a, b) ==
  IF k > Len(orderBy) THEN FALSE
  ELSE LET i == ColIndex(cols, orderBy[k].col)
       IN  IF a[i] = b[i] THEN RowBefore(cols, orderBy, k + 1, a, b)
           ELSE IF StoreDirection(orderBy[k].dir) = "ASC" THEN SortLess(a[i], b[i])
           ELSE SortLess(b[i], a[i])

\* r put into the sorted sequence, after the rows it does not sort before
RECURSIVE InsertSorted(_, _, _, _)
InsertSorted(cols, orderBy, sorted, r) ==
  IF sorted = <<>> THEN <<r>>
  ELSE IF RowBefore(cols, orderBy, 1, r, Head(sorted)) THEN <<r>> \o sorted
  ELSE <<Head(sorted)>> \o InsertSorted(cols, orderBy, Tail(sorted), r)

RECURSIVE SortRows(_, _, _, _)
SortRows(cols, orderBy, rows, n) ==
  IF n = 0 THEN <<>>
  ELSE InsertSorted(cols, orderBy, SortRows(cols, orderBy, rows, n - 1), rows[n])

\* what the store answers to a statement that failed
StoreError == [err |-> TRUE, rows |-> <<>>, count |-> 0, rowid |-> 0]

\* db.inner.Query("SELECT cols FROM table WHERE ... ORDER BY ... LIMIT n")
\* cols = <<>> stands for *, limit = -1 for no LIMIT (which is also what the
\* store takes a negative LIMIT to mean)
StoreQuery(exists, cols, rows, q) ==
  IF \/ ~exists
     \/ \E i \in DOMAIN q.cols : ColIndex(cols, q.cols[i]) = 0
     \/ ~WhereOK(cols, q.where)
     \/ \E k \in DOMAIN q.orderBy :
          \/ ColIndex(cols, q.orderBy[k].col) = 0
          \/ StoreDirection(q.orderBy[k].dir) = "error"
  THEN StoreError
  ELSE LET selected == SelectedRows(cols, rows, q.where)
           sorted == SortRows(cols, q.orderBy, selected, Len(selected))
           limited == IF q.limit >= 0 /\ q.limit < Len(sorted)
                      THEN SubSeq(sorted, 1, q.limit) ELSE sorted
           out(row) == IF q.cols = <<>> THEN row
                       ELSE [i \in DOMAIN q.cols |-> row[ColIndex(cols, q.cols[i])]]
       IN  [err |-> FALSE, rows |-> [r \in DOMAIN limited |-> out(limited[r])],
            count |-> 0, rowid |-> 0]

\* a bound parameter as the store keeps it
Bind(v) == IF v.t = "string" THEN SqlText(v.s) ELSE SqlInteger(v.n)

\* db.inner.Exec("INSERT or REPLACE INTO table(names) VALUES(?, ...)", values...)
\* the rowid column, not being named, takes the next rowid
StoreInsert(exists, cols, rows, last, names, values) ==
  IF \/ ~exists
     \/ names = <<>>
     \/ \E i \in DOMAIN names : ColIndex(cols, names[i]) = 0
  THEN StoreError
  ELSE LET given(c) == \E i \in DOMAIN names : names[i] = c.name
           value(c) == values[CHOOSE i \in DOMAIN names : names[i] = c.name]
           row == [i \in DOMAIN cols |->
                     IF given(cols[i]) THEN Bind(value(cols[i]))
                     ELSE IF cols[i].rowid THEN SqlInteger(last + 1)
                     ELSE SqlNull]
       IN  [err |-> FALSE, rows |-> Append(rows, row), count |-> 1, rowid |-> last + 1]

\* db.inner.Exec("DELETE FROM table WHERE ...")
StoreDelete(exists, cols, rows, where) ==
  IF ~exists \/ ~WhereOK(cols, where) THEN StoreError
  ELSE LET gone == {i \in DOMAIN rows : RowSelected(cols, rows[i], where)}
       IN  [err |-> FALSE, rows |-> Pick(rows, DOMAIN rows \ gone, 1),
            count |-> Cardinality(gone), rowid |-> 0]

Assignment(col, operand) == [col |-> col, operand |-> operand]

\* db.inner.Exec("UPDATE table SET col=operand, ... WHERE ...")
StoreUpdate(exists, cols, rows, sets, where) ==
  IF \/ ~exists
     \/ sets = {}
     \/ \E a \in sets : ColIndex(cols, a.col) = 0 \/ ~ParseLiteral(a.operand).ok
     \/ ~WhereOK(cols, where)
  THEN StoreError
  ELSE LET hit == {i \in DOMAIN rows : RowSelected(cols, rows[i], where)}
           set(c) == \E a \in sets : a.col = c.name
           new(c) == ParseLiteral((CHOOSE a \in sets : a.col = c.name).operand).val
           changed(row) == [i \in DOMAIN cols |->
                              IF set(cols[i]) THEN new(cols[i]) ELSE row[i]]
       IN  [err |-> FALSE,
            rows |-> [i \in DOMAIN rows |-> IF i \in hit THEN changed(rows[i]) ELSE rows[i]],
            count |-> Cardinality(hit), rowid |-> 0]

(***************************************************************************)
(* The mapper.  A Filter is a function from field names to functions from  *)
(* operator codes to operands (a sequence of values: one value, or the     *)
(* list of an "in" or "nin"); an Updates is a function from field names to *)
(* values; a struct value is the sequence of its field values.             *)
(***************************************************************************)
\* a switch with one more case, for a code the mapper does not have
OperatorsWithLike == {"lt", "gt", "eq", "neq", "leq", "geq", "in", "nin", "like"}

ValidOperators == {"lt", "gt", "eq", "neq", "leq", "geq", "in", "nin"}

ListOperators == {"in", "nin"}

\* the switch of buildWhereString
SqlOperator(code) ==
  CASE code = "lt" -> "<"
    [] code = "gt" -> ">"
    [] code = "eq" -> "="
    [] code = "neq" -> "!="
    [] code = "leq" -> "<="
    [] code = "geq" -> ">="
    [] code = "in" -> "IN"
    [] code = "nin" -> "NOT IN"
    [] OTHER -> ""

\* the (field, operator code) pairs of a filter
FilterKeys(andFilter) ==
  UNION {{<<f, o>> : o \in DOMAIN andFilter[f]} : f \in DOMAIN andFilter}

\* the WHERE fragment of a filter; it panics on an operator code it does not
\* know.  The field names are translated, not looked up in the record type.
buildWhereString(andFilter) ==
  LET keys == FilterKeys(andFilter)
      cond(k) == Condition(Snake(k[1]), SqlOperator(k[2]), k[2] \in ListOperators,
                           [i \in DOMAIN andFilter[k[1]][k[2]] |->
                              FormatOperand(andFilter[k[1]][k[2]][i])])
  IN  IF \E k \in keys : k[2] \notin ValidOperators
      THEN [panic |-> TRUE, where |-> NoWhere]
      ELSE IF DOMAIN andFilter = {}
      THEN [panic |-> FALSE, where |-> NoWhere]
      ELSE [panic |-> FALSE, where |-> Where({cond(k) : k \in keys})]

\* stringInSlice
stringInSlice(a, list) == \E i \in DOMAIN list : list[i] = a

\* rows.Scan's conversion of a column value into a target of a field type
ConvertAssign(type, v) ==
  IF v.t = "null" THEN Failed
  ELSE IF type = "string"
       THEN Parsed(StrV(IF v.t = "text" THEN v.s ELSE Digits(v.n)))
  ELSE IF v.t = "integer" THEN Parsed(Number(type, v.n))
  ELSE IF IsNumeral(v.s) THEN Parsed(Number(type, ParseDigits(v.s)))
  ELSE Failed

\* rows.Scan(fields...): the targets after the scan of one row.  A scan into
\* the wrong number of targets assigns nothing; a scan stops at the first
\* column it cannot convert.  Find does not look at the error.
RECURSIVE ScanFrom(_, _, _, _)
ScanFrom(types, fields, row, c) ==
  IF c > Len(row) THEN fields
  ELSE LET conv == ConvertAssign(types[c], row[c])
       IN  IF conv.ok THEN ScanFrom(types, [fields EXCEPT ![c] = conv.val], row, c + 1)
           ELSE fields

Scan(types, fields, row) ==
  IF Len(row) # Len(fields) THEN fields ELSE ScanFrom(types, fields, row, 1)

\* the loop over rows.Next(): one struct per row, built from the targets,
\* which keep their values from one row to the next
RECURSIVE Materialize(_, _, _, _, _, _)
Materialize(type, selected, types, fields, rows, r) ==
  IF r > Len(rows) THEN <<>>
  ELSE LET scanned == Scan(types, fields, rows[r])
           position(i) == Cardinality({k \in selected : k <= i})
           new_struct == [i \in DOMAIN type |->
                            IF i \in selected THEN scanned[position(i)]
                            ELSE Zero(type[i].type)]
       IN  <<new_struct>> \o Materialize(type, selected, types, scanned, rows, r + 1)

\* what the calls panic with
InvalidProjection == "Invalid projection column provided!"

InvalidQuery == "Invalid database query provided!"

InvalidOperator == "Invalid filter operator provided!"

TableNotFound == "Table not found!"

TypeMismatch == "Type of field in Update is not the type it should be!"

\* log.Panic(err) with the error of the store
ExecError == "error of the store"

\* a panic of the runtime or of reflect: an index out of range, a nil
\* pointer, a Set through an unexported field, a Type of the zero Value
RuntimePanic == "runtime error"

\* what a call leaves: whether it returned or panicked, the statements it
\* sent to the store, the table, what it handed back, what it panicked with
\* (msg), and the number of cursors it opened and left open (open)
Outcome(out, stmts, rows, last, result, count) ==
  [out |-> out, stmts |-> stmts, rows |-> rows, last |-> last,
   result |-> result, count |-> count, msg |-> "", open |-> 0]

\* the outcome of a call that panicked with msg
Panics(outcome, msg) == [outcome EXCEPT !.msg = msg]

\* a Find that leaves the close of the rows to the end of its row loop
CloseNotDeferred == FALSE

\* a close of the rows is deferred as soon as Find has them
FindDefersClose == TRUE

\* database/sql releases the cursor of a *sql.Rows when Next has returned
\* false or Close has been called: the number of cursors left open
StillOpen(opened, exhausted, closed) ==
  IF opened /\ ~exhausted /\ ~closed THEN 1 ELSE 0

\* a Find that hands every limit to the store
LimitUnchecked(limit) == limit

\* the LIMIT of the query of Find: args.limit if it is positive, else none
LimitClause(limit) == IF limit > 0 THEN limit ELSE -1

\* the columns of the query in the order the caller lists them
ProjectionAsGiven(names, projection) == projection

\* the first loop of Find: the names of the projection that are fields of
\* the struct, in the order of the fields
OrderedProjection(names, projection) ==
  IF Len(projection) > 0
  THEN Pick(names, {i \in DOMAIN names : \E k \in DOMAIN projection : projection[k] = names[i]}, 1)
  ELSE <<>>

FindArgs(projection, andFilter, orderBy, limit) ==
  [projection |-> projection, andFilter |-> andFilter, orderBy |-> orderBy, limit |-> limit]

\* db.Find(&result, args) for a slice of structs of the given type
Find(type, exists, cols, rows, last, args) ==
  LET names == [i \in DOMAIN type |-> type[i].name]
      inProjection == {i \in DOMAIN type : stringInSlice(names[i], args.projection)}
      j == IF Len(args.projection) > 0 THEN Cardinality(inProjection) ELSE 0
      ordered_projection == OrderedProjection(names, args.projection)
      snake_projection == [i \in DOMAIN ordered_projection |->
                             Snake(ordered_projection[i])]
      built == buildWhereString(args.andFilter)
      query == [cols |-> snake_projection,
                where |-> built.where,
                orderBy |-> [k \in DOMAIN args.orderBy |->
                               [col |-> Snake(args.orderBy[k][1]),
                                dir |-> args.orderBy[k][2]]],
                limit |-> LimitClause(args.limit)]
      answer == StoreQuery(exists, cols, rows, query)
      scanCols == IF Len(ordered_projection) > 0 THEN snake_projection
                  ELSE columnNames(type)
      selected == IF Len(ordered_projection) > 0
                  THEN {i \in DOMAIN type : stringInSlice(names[i], ordered_projection)}
                  ELSE DOMAIN type
      types == [k \in 1..Cardinality(selected) |->
                  type[CHOOSE i \in selected :
                         Cardinality({m \in selected : m <= i}) = k].type]
      fields == [k \in DOMAIN types |-> Zero(types[k])]
      panic(stmts, msg) == Panics(Outcome("panic", stmts, rows, last, <<>>, 0), msg)
      \* a panic while the rows are held: they have not been read to the end
      held(msg) == [panic(<<"select">>, msg) EXCEPT
                      !.open = StillOpen(TRUE, FALSE, FindDefersClose)]
  IN  IF j # Len(args.projection) THEN panic(<<>>, InvalidProjection)
      ELSE IF built.panic THEN panic(<<>>, InvalidOperator)
      ELSE IF answer.err THEN panic(<<"select">>, InvalidQuery)
      ELSE IF Cardinality(selected) > Len(scanCols) THEN held(RuntimePanic)
      ELSE IF answer.rows # <<>> /\ \E i \in selected : ~IsUpper(names[i][1])
           THEN held(RuntimePanic)
      ELSE [Outcome("ok", <<"select">>, rows, last,
                    Materialize(type, selected, types, fields, answer.rows, 1), 0)
              EXCEPT !.open = StillOpen(TRUE, TRUE, FindDefersClose)]

\* a close of the rows is deferred as soon as First has them
FirstDefersClose == TRUE

\* db.First(&result) of package dorm: the first row of the table.  count is
\* 1 when it returns true and 0 when it returns false.
First(type, exists, cols, rows, last) ==
  LET query == [cols |-> <<>>, where |-> NoWhere, orderBy |-> <<>>, limit |-> -1]
      answer == StoreQuery(exists, cols, rows, query)
      types == [i \in DOMAIN type |-> type[i].type]
      fields == [i \in DOMAIN type |-> Zero(type[i].type)]
      panic == Panics(Outcome("panic", <<"select">>, rows, last, <<>>, 0), RuntimePanic)
      closed(outcome, exhausted) ==
        [outcome EXCEPT !.open = StillOpen(~answer.err, exhausted, FirstDefersClose)]
  IN  IF Len(type) > Len(columnNames(type)) THEN closed(panic, FALSE)
      ELSE IF answer.err THEN panic
      ELSE IF answer.rows = <<>>
      THEN closed(Outcome("ok", <<"select">>, rows, last, <<>>, 0), TRUE)
      ELSE closed(Outcome("ok", <<"select">>, rows, last,
                          <<Scan(types, fields, answer.rows[1])>>, 1), FALSE)

\* a probe that takes every table to exist
ProbeSkipped(exists) == TRUE

\* db.checkTableExists(model): a query of the whole table
checkTableExists(exists) == exists

\* the cursor of the probe: its rows are read to the end, and closed
ProbeOpen(exists) == StillOpen(exists, TRUE, TRUE)

\* the outcome of a call that ran the probe first
Probed(exists, outcome) == [outcome EXCEPT !.open = ProbeOpen(exists)]

\* a first loop of Create that stops one field short
InsertedFieldsShort(type) ==
  {i \in DOMAIN type : ~type[i].pk /\ IsVisible(type[i].name) /\ i < Len(type)}

\* a second loop of Create that copies every field, the primary key too
WrittenBackUnset(type, model, id) == model

\* the first loop of Create: the fields it names in the INSERT, those that
\* are neither the primary key nor unexported
InsertedFields(type) ==
  {i \in DOMAIN type : ~type[i].pk /\ IsVisible(type[i].name)}

\* the second loop of Create: the struct it stores back into the caller's
\* model, the primary key set to insert_res.LastInsertId()
WrittenBack(type, model, id) ==
  [i \in DOMAIN type |-> IF type[i].pk THEN Int64V(id) ELSE model[i]]

\* db.Create(&model) for a struct of the given type
Create(type, exists, cols, rows, last, model) ==
  LET inserted == InsertedFields(type)
      names == Pick([i \in DOMAIN type |-> Snake(type[i].name)], inserted, 1)
      values == Pick(model, inserted, 1)
      answer == StoreInsert(exists, cols, rows, last, names, values)
      hasRowid == \E i \in DOMAIN cols : cols[i].rowid
      after == IF hasRowid THEN answer.rowid ELSE last
      panic(stmts, table, id, msg) ==
        Probed(exists, Panics(Outcome("panic", stmts, table, id, <<model>>, 0), msg))
  IN  IF ~checkTableExists(exists)
      THEN panic(<<"select">>, rows, last, TableNotFound)
      ELSE IF answer.err
      THEN panic(<<"select", "insert">>, rows, last, ExecError)
      ELSE IF \E i \in DOMAIN type : ~type[i].pk /\ ~IsUpper(type[i].name[1])
      THEN panic(<<"select", "insert">>, answer.rows, after, RuntimePanic)
      ELSE Probed(exists, Outcome("ok", <<"select", "insert">>, answer.rows, after,
                                  <<WrittenBack(type, model, answer.rowid)>>, 0))

DeleteOrUpdateArgs(andFilter) == [andFilter |-> andFilter]

\* db.Delete(&model, args)
Delete(type, exists, cols, rows, last, args) ==
  LET built == buildWhereString(args.andFilter)
      answer == StoreDelete(exists, cols, rows, built.where)
      panic(stmts, msg) ==
        Probed(exists, Panics(Outcome("panic", stmts, rows, last, <<>>, 0), msg))
  IN  IF ~checkTableExists(exists) THEN panic(<<"select">>, TableNotFound)
      ELSE IF built.panic THEN panic(<<"select">>, InvalidOperator)
      ELSE IF answer.err THEN panic(<<"select", "delete">>, ExecError)
      ELSE Probed(exists, Outcome("ok", <<"select", "delete">>, answer.rows, last,
                                  <<>>, answer.count))

\* a loop of Update that looks for the field and does not compare the types
UpdateFieldCheck(type, update) == \A f \in DOMAIN update : HasField(type, f)

\* the loop of Update over the update set stops at an entry whose field the
\* type lacks or whose value has another type than the field
UpdateTypeCheck(type, update) ==
  \A f \in DOMAIN update :
    /\ HasField(type, f)
    /\ type[FieldIndex(type, f)].type = update[f].t

\* db.Update(&model, args, update)
Update(type, exists, cols, rows, last, args, update) ==
  LET sets == {Assignment(Snake(f), FormatOperand(update[f])) : f \in DOMAIN update}
      built == buildWhereString(args.andFilter)
      answer == StoreUpdate(exists, cols, rows, sets, built.where)
      panic(stmts, msg) ==
        Probed(exists, Panics(Outcome("panic", stmts, rows, last, <<>>, 0), msg))
  IN  IF ~checkTableExists(exists) THEN panic(<<"select">>, TableNotFound)
      \* the loop meets the entries in the order of the map, which is not
      \* fixed: with a missing field and a wrong type it panics with either
      ELSE IF ~UpdateTypeCheck(type, update)
      THEN panic(<<"select">>, IF \A f \in DOMAIN update : HasField(type, f)
                               THEN TypeMismatch ELSE RuntimePanic)
      ELSE IF built.panic THEN panic(<<"select">>, InvalidOperator)
      ELSE IF answer.err THEN panic(<<"select", "update">>, ExecError)
      ELSE Probed(exists, Outcome("ok", <<"select", "update">>, answer.rows, last,
                                  <<>>, answer.count))

(***************************************************************************)
(* The arguments the calls are made with.                                  *)
(***************************************************************************)
PlainText == <<"a">>

QuoteText == <<QUOTE>>

TwoQuotes == <<QUOTE, QUOTE>>

UP == <<"U","P">>

Directions == {ASC, DESC, ToLower(ASC), UP}

Limits == {-1, 0, 1}

\* the field names of the type
FieldNames(type) == {type[i].name : i \in DOMAIN type}

\* the names a call refers to: the fields of the type and one it lacks
Names(type) == FieldNames(type) \cup {FakeField}

\* the declared type of the field, int for a name the type lacks
TypeOf(type, name) ==
  IF HasField(type, name) THEN type[FieldIndex(type, name)].type ELSE "int"

\* the values a struct handed to Create holds in a field
FieldValues(f) ==
  IF f.pk THEN {Int64V(0), Int64V(1)}
  ELSE IF f.type = "string" THEN {StrV(PlainText), StrV(QuoteText)}
  ELSE {Number(f.type, 1), Number(f.type, 2)}

Models(type) ==
  {m \in [DOMAIN type -> UNION {FieldValues(type[i]) : i \in DOMAIN type}] :
     \A i \in DOMAIN type : m[i] \in FieldValues(type[i])}

\* the operands of a filter condition on a field of the given type: a value
\* of that type, or for "in" and "nin" a list of such values
OperandValues(ftype) ==
  IF ftype = "string" THEN {StrV(PlainText), StrV(TwoQuotes)}
  ELSE {Number(ftype, 1), Number(ftype, 2)}

OperandLists(ftype) ==
  IF ftype = "string"
  THEN {<<>>, <<StrV(PlainText)>>, <<StrV(PlainText), StrV(TwoQuotes)>>}
  ELSE {<<>>, <<Number(ftype, 1)>>, <<Number(ftype, 1), Number(ftype, 2)>>}

Triple(field, op, vals) == [field |-> field, op |-> op, vals |-> vals]

\* the conditions of the filters: on each field of the type every operator of
\* the mapper with every operand, and one condition with an operator code the
\* mapper does not know; one condition on a name the type lacks
Conditions(type) ==
  UNION {{Triple(f, o, <<v>>) : o \in ValidOperators \ ListOperators,
                                  v \in OperandValues(TypeOf(type, f))}
         \cup {Triple(f, o, l) : o \in ListOperators, l \in OperandLists(TypeOf(type, f))}
         \cup {Triple(f, "like", <<Zero(TypeOf(type, f))>>)}
         : f \in FieldNames(type)}
  \cup {Triple(FakeField, "eq", <<IntV(1)>>)}

\* the sets of n conditions no two of which have the same field and operator
RECURSIVE ConditionSets(_, _)
ConditionSets(type, n) ==
  IF n = 0 THEN {{}}
  ELSE UNION {{S \cup {c} :
                 c \in {d \in Conditions(type) :
                          \A e \in S : e.field # d.field \/ e.op # d.op}}
              : S \in ConditionSets(type, n - 1)}

\* addFilter(filter, c.field, c.op, c.vals) for the conditions c of S, and an
\* operator map without entries for the fields of E
FilterFrom(S, E) ==
  [f \in {c.field : c \in S} \cup E |->
     [o \in {c.op : c \in {d \in S : d.field = f}} |->
        (CHOOSE c \in S : c.field = f /\ c.op = o).vals]]

\* the filters of size n
Filters(type, n) ==
  {FilterFrom(S, {}) : S \in ConditionSets(type, n)}
  \cup (IF n = 0 THEN {}
        ELSE UNION {{FilterFrom(S, {f}) : f \in Names(type) \ {c.field : c \in S}}
                    : S \in ConditionSets(type, n - 1)})

\* the number of conditions of a filter, a field without conditions counting one
FilterSize(andFilter) ==
  Cardinality(FilterKeys(andFilter))
  + Cardinality({f \in DOMAIN andFilter : DOMAIN andFilter[f] = {}})

Projections(type, n) == [1..n -> Names(type)]

\* the pairs of the orderings: each field of the type with each direction, and
\* one pair with a name the type lacks
OrderPairs(type) ==
  {<<f, d>> : f \in FieldNames(type), d \in Directions} \cup {<<FakeField, ASC>>}

Orderings(type, n) == [1..n -> OrderPairs(type)]

LimitsWithin(n) == {l \in Limits : l = 0 \/ n >= 1}

FindArgsSet(type) ==
  UNION {UNION {UNION {
    {FindArgs(p, f, o, l) : p \in Projections(type, np), f \in Filters(type, nf),
                            o \in Orderings(type, no),
                            l \in LimitsWithin(MaxArgs - np - nf - no)}
    : no \in 0..(MaxArgs - np - nf)} : nf \in 0..(MaxArgs - np)} : np \in 0..MaxArgs}

DeleteArgsSet(type) ==
  UNION {{DeleteOrUpdateArgs(f) : f \in Filters(type, nf)} : nf \in 0..MaxArgs}

\* the entries of an update set: a field that is not the primary key, or a
\* name the type lacks, with a value of the field's type or of another type
Entry(field, val) == [field |-> field, val |-> val]

Entries(type) ==
  UNION {{Entry(f, v) : v \in OperandValues(TypeOf(type, f))
                              \cup {IF TypeOf(type, f) = "string"
                                    THEN IntV(1) ELSE StrV(PlainText)}}
         : f \in {g \in Names(type) : ~HasField(type, g) \/ ~type[FieldIndex(type, g)].pk}}

RECURSIVE EntrySets(_, _)
EntrySets(type, n) ==
  IF n = 0 THEN {{}}
  ELSE UNION {{S \cup {e} : e \in {d \in Entries(type) : \A c \in S : c.field # d.field}}
              : S \in EntrySets(type, n - 1)}

\* addUpdate(updates, e.field, e.val) for the entries e of S
UpdatesFrom(S) ==
  [f \in {e.field : e \in S} |-> (CHOOSE e \in S : e.field = f).val]

UpdateArgsSet(type) ==
  UNION {UNION {
    {<<DeleteOrUpdateArgs(f), UpdatesFrom(S)>> : f \in Filters(type, nf),
                                                   S \in EntrySets(type, nu)}
    : nu \in 0..(MaxArgs - nf)} : nf \in 0..MaxArgs}

(***************************************************************************)
(* The state: the record type the caller maps (elem), the table of the     *)
(* store, and the call the caller made last, with what it returned.        *)
(***************************************************************************)
NoArgs == FindArgs(<<>>, <<>>, <<>>, 0)

Call(op, model, args, update, before, outcome) ==
  [op |-> op, model |-> model, args |-> args, update |-> update, before |-> before,
   out |-> outcome.out, stmts |-> outcome.stmts, result |-> outcome.result,
   count |-> outcome.count, msg |-> outcome.msg, open |-> outcome.open]

NoCall == Call("none", <<>>, NoArgs, <<>>, <<>>, Outcome("ok", <<>>, <<>>, 0, <<>>, 0))

Init ==
  /\ elem \in RecordTypes
  /\ tableExists = FALSE
  /\ tableCols = SchemaOf(elem)
  /\ tableRows = <<>>
  /\ lastRowid = 0
  /\ call = NoCall

\* the caller creates the table of the record type
createTable ==
  /\ call.op = "none"
  /\ ~tableExists
  /\ tableExists' = TRUE
  /\ UNCHANGED <<elem, tableCols, tableRows, lastRowid, call>>

Returns(op, model, args, update, outcome) ==
  /\ call' = Call(op, model, args, update, tableRows, outcome)
  /\ tableRows' = outcome.rows
  /\ lastRowid' = outcome.last
  /\ UNCHANGED <<elem, tableExists, tableCols>>

CallFind ==
  /\ call.op = "none"
  /\ \E args \in FindArgsSet(elem) :
       Returns("Find", <<>>, args, <<>>,
               Find(elem, tableExists, tableCols, tableRows, lastRowid, args))

CallCreate ==
  /\ call.op = "none"
  /\ Len(tableRows) < MaxRows
  /\ lastRowid < MaxRowid
  /\ \E model \in Models(elem) :
       Returns("Create", model, NoArgs, <<>>,
               Create(elem, tableExists, tableCols, tableRows, lastRowid, model))

CallDelete ==
  /\ call.op = "none"
  /\ \E args \in DeleteArgsSet(elem) :
       Returns("Delete", <<>>, FindArgs(<<>>, args.andFilter, <<>>, 0), <<>>,
               Delete(elem, tableExists, tableCols, tableRows, lastRowid, args))

CallUpdate ==
  /\ call.op = "none"
  /\ \E au \in UpdateArgsSet(elem) :
       Returns("Update", <<>>, FindArgs(<<>>, au[1].andFilter, <<>>, 0), au[2],
               Update(elem, tableExists, tableCols, tableRows, lastRowid, au[1], au[2]))

CallFirst ==
  /\ call.op = "none"
  /\ Returns("First", <<>>, NoArgs, <<>>,
             First(elem, tableExists, tableCols, tableRows, lastRowid))

\* the caller is done with what the call returned, or has recovered from its
\* panic, and goes on to the next call
Discard ==
  /\ call.op # "none"
  /\ call' = NoCall
  /\ UNCHANGED <<elem, tableExists, tableCols, tableRows, lastRowid>>

Next ==
  \/ createTable
  \/ CallFind
  \/ CallFirst
  \/ CallCreate
  \/ CallDelete
  \/ CallUpdate
  \/ Discard

Spec == Init /\ [][Next]_vars

(***************************************************************************)
(* The translation of identifiers on its own: camelToSnake applied to the  *)
(* names of fields and, by TableName, to the name of a record type.        *)
(***************************************************************************)
\* most characters of a generated identifier
MaxNameLen == 3

\* the characters of the generated identifiers: capitals, small letters, a
\* digit and the underscore
NameChars == {"I", "D", "a", "b", "1", "_"}

UserComment == <<"U","s","e","r","C","o","m","m","e","n","t">>

\* the names of fields: every short word, and the names of the tests
FieldIdentifiers ==
  UNION {[1..k -> NameChars] : k \in 1..MaxNameLen} \cup {ID, UserName, FullName, Age}

\* the names of record types
TypeIdentifiers ==
  {UserComment, <<"U","s","e","r">>, <<"P","o","s","t">>, <<"I","D","s">>}

\* TableName: the translated name of the element type of result
TableName(typeName) == camelToSnake(typeName)

Translation(op, name, snake) == [op |-> op, name |-> name, snake |-> snake]

InitNames ==
  /\ elem = User
  /\ tableExists = FALSE
  /\ tableCols = SchemaOf(User)
  /\ tableRows = <<>>
  /\ lastRowid = 0
  /\ call = Translation("none", <<>>, <<>>)

CallCamelToSnake ==
  /\ \E name \in FieldIdentifiers :
       call' = Translation("camelToSnake", name, camelToSnake(name))
  /\ UNCHANGED <<elem, tableExists, tableCols, tableRows, lastRowid>>

CallTableName ==
  /\ \E name \in TypeIdentifiers :
       call' = Translation("TableName", name, TableName(name))
  /\ UNCHANGED <<elem, tableExists, tableCols, tableRows, lastRowid>>

NextNames ==
  \/ CallCamelToSnake
  \/ CallTableName

SpecNames == InitNames /\ [][NextNames]_vars

(***************************************************************************)
(* Find with a filter, an ordering and a limit in one call.                *)
(***************************************************************************)
\* the limits that cut: one row, and as many rows as the table can hold
CuttingLimits == {1, MaxRows}

\* FindArgs with one condition, one pair of ordering and a limit
FullArgsSet(type) ==
  {FindArgs(<<>>, f, o, l) : f \in Filters(type, 1), o \in Orderings(type, 1),
                             l \in CuttingLimits}

CallFindFull ==
  /\ call.op = "none"
  /\ \E args \in FullArgsSet(elem) :
       Returns("Find", <<>>, args, <<>>,
               Find(elem, tableExists, tableCols, tableRows, lastRowid, args))

NextFull ==
  \/ createTable
  \/ CallCreate
  \/ CallFindFull
  \/ Discard

SpecFull == Init /\ [][NextFull]_vars

(***************************************************************************)
(* A table whose columns are those of the record type in another order     *)
(* than the fields are declared in: the caller wrote its CREATE TABLE so.  *)
(***************************************************************************)
Reverse(s) == [i \in DOMAIN s |-> s[Len(s) + 1 - i]]

\* the tables a caller may have created for the type
Schemas(type) == {SchemaOf(type), Reverse(SchemaOf(type))}

InitSchema ==
  /\ elem \in {User, Post}
  /\ tableExists = FALSE
  /\ tableCols \in Schemas(elem)
  /\ tableRows = <<>>
  /\ lastRowid = 0
  /\ call = NoCall

\* FindArgs with a projection and nothing else
ProjectionArgsSet(type) ==
  UNION {{FindArgs(p, <<>>, <<>>, 0) : p \in Projections(type, np)} : np \in 0..MaxArgs}

CallFindProjection ==
  /\ call.op = "none"
  /\ \E args \in ProjectionArgsSet(elem) :
       Returns("Find", <<>>, args, <<>>,
               Find(elem, tableExists, tableCols, tableRows, lastRowid, args))

NextSchema ==
  \/ createTable
  \/ CallCreate
  \/ CallFindProjection
  \/ CallFirst
  \/ Discard

SpecSchema == InitSchema /\ [][NextSchema]_vars

(***************************************************************************)
(* The column names of a record type on their own: columnNames of package  *)
(* sdorm and ColumnNames of package dorm, for structs of a few fields.     *)
(***************************************************************************)
\* most fields of a generated struct
MaxFields == 3

\* the names of the fields of the generated structs
StructFieldNames == {ID, Id, UserName, secret, Padding}

\* the structs with distinct field names
StructTypes ==
  UNION {{[i \in 1..n |-> Field(names[i], "int", FALSE)] :
            names \in {f \in [1..n -> StructFieldNames] :
                         \A i, j \in 1..n : f[i] = f[j] => i = j}}
         : n \in 1..MaxFields}

\* ColumnNames of package dorm
ColumnNames(type) ==
  LET names == [i \in DOMAIN type |-> camelToSnake(type[i].name)]
  IN  Pick(names, {i \in DOMAIN type : ~IsLower(type[i].name[1])}, 1)

Analysis(op, cols) == [op |-> op, cols |-> cols]

InitColumns ==
  /\ elem = User
  /\ tableExists = FALSE
  /\ tableCols = SchemaOf(User)
  /\ tableRows = <<>>
  /\ lastRowid = 0
  /\ call = Analysis("none", <<>>)

CallColumnNames ==
  /\ \E type \in StructTypes :
       /\ elem' = type
       /\ call' = Analysis("columnNames", columnNames(type))
  /\ UNCHANGED <<tableExists, tableCols, tableRows, lastRowid>>

CallColumnNamesDorm ==
  /\ \E type \in StructTypes :
       /\ elem' = type
       /\ call' = Analysis("ColumnNames", ColumnNames(type))
  /\ UNCHANGED <<tableExists, tableCols, tableRows, lastRowid>>

NextColumns ==
  \/ CallColumnNames
  \/ CallColumnNamesDorm

SpecColumns == InitColumns /\ [][NextColumns]_vars

(***************************************************************************)
(* What the calls are to do, stated on the caller's values and the rows    *)
(* of the table.  The record shape of a type is its visible fields, which  *)
(* are the columns of the table in declared order.                         *)
(***************************************************************************)
InShape(type, name) == HasField(type, name) /\ IsVisible(name)

\* the position of a visible field among the columns
ShapeIndex(type, name) ==
  Cardinality({k \in 1..FieldIndex(type, name) : IsVisible(type[k].name)})

\* a stored value as a value of the field type
FieldValue(ftype, v) == IF ftype = "string" THEN StrV(v.s) ELSE Number(ftype, v.n)

\* the record a stored row stands for; a field outside the shape is zero
RecordOf(type, row) ==
  [i \in DOMAIN type |->
     IF IsVisible(type[i].name)
     THEN FieldValue(type[i].type, row[ShapeIndex(type, type[i].name)])
     ELSE Zero(type[i].type)]

ValueLess(a, b) == IF a.t = "string" THEN TextLess(a.s, b.s) ELSE a.n < b.n

\* the field value v meets the condition (code, vals)
Meets(code, v, vals) ==
  CASE code = "eq" -> v = vals[1]
    [] code = "neq" -> v # vals[1]
    [] code = "lt" -> ValueLess(v, vals[1])
    [] code = "gt" -> ValueLess(vals[1], v)
    [] code = "leq" -> ~ValueLess(vals[1], v)
    [] code = "geq" -> ~ValueLess(v, vals[1])
    [] code = "in" -> \E i \in DOMAIN vals : v = vals[i]
    [] code = "nin" -> \A i \in DOMAIN vals : v # vals[i]
    [] OTHER -> FALSE

\* the row satisfies every condition of the filter
Satisfies(type, row, andFilter) ==
  \A k \in FilterKeys(andFilter) :
    Meets(k[2], RecordOf(type, row)[FieldIndex(type, k[1])], andFilter[k[1]][k[2]])

\* the indices of the rows that satisfy the filter
Matching(type, rows, andFilter) ==
  {i \in DOMAIN rows : Satisfies(type, rows[i], andFilter)}

\* the fields of the filter are in the shape and its operator codes are known
ValidFilter(type, andFilter) ==
  \A f \in DOMAIN andFilter :
    InShape(type, f) /\ DOMAIN andFilter[f] \subseteq ValidOperators

\* the call was a Find with nothing but the given parts of FindArgs set
PlainFind == call.op = "Find" /\ tableExists /\ call.args.orderBy = <<>> /\ call.args.limit <= 0

C2_CreateSetsKeyOnly ==
  (call.op = "Create" /\ call.out = "ok") =>
    LET stored == tableRows[Len(tableRows)]
    IN  /\ tableRows = Append(call.before, stored)
        /\ \A i \in DOMAIN elem :
             IF elem[i].pk
             THEN call.result[1][i] = Int64V(stored[ShapeIndex(elem, elem[i].name)].n)
             ELSE call.result[1][i] = call.model[i]

\* a Create returned a primary key other than the one the caller supplied
C2_Witness ==
  /\ call.op = "Create" /\ call.out = "ok"
  /\ \E i \in DOMAIN elem : elem[i].pk /\ call.model[i].n = 1 /\ call.result[1][i].n = 2

\* C3 (filter correctness): a Find whose filter names fields of the shape
\* and known operators, without projection, ordering or limit, returns the
\* records of exactly the stored rows that satisfy every condition of the
\* filter, in the order of the table.
C3_FilterCorrectness ==
  (PlainFind /\ call.args.projection = <<>> /\ ValidFilter(elem, call.args.andFilter)) =>
    LET kept == Pick(call.before, Matching(elem, call.before, call.args.andFilter), 1)
    IN  /\ call.out = "ok"
        /\ call.result = [r \in DOMAIN kept |-> RecordOf(elem, kept[r])]

\* C4 (row count): a Delete or Update that succeeded returns the number of
\* rows that satisfied the filter just before the call.
C4_RowCount ==
  (call.op \in {"Delete", "Update"} /\ call.out = "ok") =>
    call.count = Cardinality(Matching(elem, call.before, call.args.andFilter))

\* C5 (frame of Delete): after a Delete that succeeded the table holds the
\* rows that did not satisfy the filter, unchanged and in their order.
C5_DeleteFrame ==
  (call.op = "Delete" /\ call.out = "ok") =>
    tableRows = Pick(call.before,
                     DOMAIN call.before \ Matching(elem, call.before, call.args.andFilter), 1)

\* C6 (frame of Update): after an Update that succeeded the table holds as
\* many rows in the same order; a row that satisfied the filter has each
\* field of the update set equal to the new value and its other fields
\* unchanged, and a row that did not is unchanged.
C6_UpdateFrame ==
  (call.op = "Update" /\ call.out = "ok") =>
    /\ Len(tableRows) = Len(call.before)
    /\ \A i \in DOMAIN call.before :
         IF i \in Matching(elem, call.before, call.args.andFilter)
         THEN \A k \in DOMAIN elem :
                RecordOf(elem, tableRows[i])[k] =
                  IF elem[k].name \in DOMAIN call.update
                  THEN call.update[elem[k].name]
                  ELSE RecordOf(elem, call.before[i])[k]
         ELSE tableRows[i] = call.before[i]

\* the entry of the update set names a field outside the shape, or its value
\* has another type than the field
InvalidEntry(type, update, f) ==
  ~InShape(type, f) \/ type[FieldIndex(type, f)].type # update[f].t

\* C7 (Update checks its update set first): an Update with an entry that
\* names a field outside the shape or holds a value of another type than the
\* field fails, and the rows of the table are those before the call, also
\* when other entries are valid.
C7_UpdateCheckedFirst ==
  (call.op = "Update" /\ \E f \in DOMAIN call.update : InvalidEntry(elem, call.update, f)) =>
    call.out = "panic" /\ tableRows = call.before

\* an Update of every row of a table that has rows, with one valid and one
\* invalid entry, failed
C7_Witness ==
  /\ call.op = "Update" /\ call.out = "panic" /\ tableExists
  /\ call.before # <<>> /\ DOMAIN call.args.andFilter = {}
  /\ \E f, g \in DOMAIN call.update :
       /\ InShape(elem, f) /\ elem[FieldIndex(elem, f)].type # call.update[f].t
       /\ ~InvalidEntry(elem, call.update, g)

\* C8 (projection correctness): a Find whose projection names fields of the
\* shape only, without filter, ordering or limit, returns one record for
\* each stored row, in the order of the table, whose projected fields hold
\* the stored values and whose other fields are zero; an empty projection
\* projects every field.
C8_ProjectionCorrectness ==
  (/\ PlainFind /\ DOMAIN call.args.andFilter = {}
   /\ \A i \in DOMAIN call.args.projection : InShape(elem, call.args.projection[i])) =>
    LET projected(k) == \/ call.args.projection = <<>>
                        \/ stringInSlice(elem[k].name, call.args.projection)
    IN  /\ call.out = "ok"
        /\ call.result =
             [r \in DOMAIN call.before |->
                [k \in DOMAIN elem |->
                   IF projected(k) THEN RecordOf(elem, call.before[r])[k]
                   ELSE Zero(elem[k].type)]]

\* C9 (projection checked before the query): a Find whose projection names
\* a field outside the shape fails without a statement reaching the store.
C9_ProjectionCheckedFirst ==
  (call.op = "Find" /\ \E i \in DOMAIN call.args.projection :
                         ~InShape(elem, call.args.projection[i])) =>
    call.out = "panic" /\ call.stmts = <<>>

\* C10 (ordering checked before the query): a Find whose ordering names a
\* field outside the shape, or a direction other than "ASC" and "DESC",
\* fails without a statement reaching the store.
C10_OrderingCheckedFirst ==
  (call.op = "Find" /\ \E k \in DOMAIN call.args.orderBy :
                         \/ ~InShape(elem, call.args.orderBy[k][1])
                         \/ call.args.orderBy[k][2] \notin {ASC, DESC}) =>
    call.out = "panic" /\ call.stmts = <<>>

\* the statements that change rows
Mutating == {"insert", "update", "delete"}

\* C11 (filter fields checked before the statement): a Find, Delete or
\* Update whose filter names a field outside the shape fails; no statement
\* of the call reaches the store (for Delete and Update none but the probe
\* of the table), and the rows of the table are those before the call.
C11_FilterFieldCheckedFirst ==
  (/\ call.op \in {"Find", "Delete", "Update"}
   /\ \E f \in DOMAIN call.args.andFilter : ~InShape(elem, f)) =>
    /\ call.out = "panic"
    /\ call.stmts = IF call.op = "Find" \/ call.stmts = <<>> THEN <<>> ELSE <<"select">>
    /\ tableRows = call.before

\* every field of the type is in its shape
AllVisible(type) == \A i \in DOMAIN type : IsVisible(type[i].name)

\* the records of all rows of the table, in its order
AllRecords(type, rows) == [r \in DOMAIN rows |-> RecordOf(type, rows[r])]

\* s and t hold the same elements the same number of times
SameBag(s, t) ==
  /\ Len(s) = Len(t)
  /\ \A x \in Range(s) \cup Range(t) :
       Cardinality({i \in DOMAIN s : s[i] = x}) = Cardinality({i \in DOMAIN t : t[i] = x})

\* the ordering names fields of the shape and the directions "ASC" and "DESC"
ValidOrdering(type, orderBy) ==
  \A k \in DOMAIN orderBy : InShape(type, orderBy[k][1]) /\ orderBy[k][2] \in {ASC, DESC}

\* record a comes strictly before record b under the ordering: they agree on
\* the fields of the pairs before some pair, and differ in its direction
Precedes(type, orderBy, a, b) ==
  \E k \in DOMAIN orderBy :
    LET at(m) == FieldIndex(type, orderBy[m][1])
    IN  /\ \A m \in 1..(k - 1) : a[at(m)] = b[at(m)]
        /\ IF orderBy[k][2] = ASC THEN ValueLess(a[at(k)], b[at(k)])
           ELSE ValueLess(b[at(k)], a[at(k)])

\* the call was a Find with a valid ordering and nothing else
OrderedFind ==
  /\ call.op = "Find" /\ tableExists
  /\ call.args.orderBy # <<>> /\ ValidOrdering(elem, call.args.orderBy)
  /\ call.args.projection = <<>> /\ DOMAIN call.args.andFilter = {}
  /\ call.args.limit <= 0

\* the records Find returned are those of all rows, sorted by the ordering
ReturnedSorted ==
  /\ call.out = "ok"
  /\ SameBag(call.result, AllRecords(elem, call.before))
  /\ \A i, j \in DOMAIN call.result :
       i < j => ~Precedes(elem, call.args.orderBy, call.result[j], call.result[i])

\* C12 (ordering correctness): a Find with a valid ordering returns the
\* selected rows sorted by the pairs of the ordering, the first pair first
\* and each later pair deciding between rows the earlier pairs leave equal.
C12_OrderingCorrectness == OrderedFind => ReturnedSorted

\* the same for the record types all of whose fields are visible
OrderingOfVisibleTypes == (OrderedFind /\ AllVisible(elem)) => ReturnedSorted

\* C13 (limit correctness): where a Find without limit returns m records, the
\* same Find with a limit n > 0 returns the first min(n, m) of them, and with
\* a limit of 0 or less it returns all of them; it does not fail.
C13_LimitCorrectness ==
  call.op = "Find" =>
    LET unlimited == Find(elem, tableExists, tableCols, call.before, lastRowid,
                          [call.args EXCEPT !.limit = 0])
        n == call.args.limit
        m == Len(unlimited.result)
    IN  unlimited.out = "ok" =>
          /\ call.out = "ok"
          /\ call.result = IF n > 0 /\ n < m THEN SubSeq(unlimited.result, 1, n)
                           ELSE unlimited.result

\* a Find with limit 1 and a descending ordering returned one of two records,
\* the one the table holds last
C13_Witness ==
  /\ call.op = "Find" /\ call.out = "ok" /\ call.args.limit = 1
  /\ Len(call.before) = 2 /\ Len(call.args.orderBy) = 1
  /\ call.result = <<RecordOf(elem, call.before[2])>>
  /\ call.before[1] # call.before[2]

\* the call had an empty filter, and a Find nothing else either
UnfilteredCall ==
  /\ call.op \in {"Find", "Delete", "Update"} /\ tableExists
  /\ DOMAIN call.args.andFilter = {}
  /\ call.op = "Find" =>
       call.args.projection = <<>> /\ call.args.orderBy = <<>> /\ call.args.limit <= 0

\* the call took every row of the table: Find returned them all, Delete
\* removed them all, an Update that went through changed them all
TookEveryRow ==
  CASE call.op = "Find" ->
         call.out = "ok" /\ call.result = AllRecords(elem, call.before)
    [] call.op = "Delete" ->
         call.out = "ok" /\ tableRows = <<>> /\ call.count = Len(call.before)
    [] call.op = "Update" ->
         call.out = "ok" => call.count = Len(call.before)

\* C14 (an empty filter selects every row): with an empty filter Find
\* returns all rows, Delete removes all rows and Update changes all rows.
C14_EmptyFilterSelectsAll == UnfilteredCall => TookEveryRow

\* the same for the record types all of whose fields are visible
EmptyFilterOfVisibleTypes == (UnfilteredCall /\ AllVisible(elem)) => TookEveryRow

\* C15 (the probe comes first): a Create, Delete or Update on a table that
\* does not exist fails as soon as the probe of the table has failed: the
\* probe is the one statement the store receives from the call, and no
\* insert, update or delete.
C15_ProbeBeforeMutation ==
  (call.op \in {"Create", "Delete", "Update"} /\ ~tableExists) =>
    /\ call.out = "panic"
    /\ call.stmts = <<"select">>
    /\ \A i \in DOMAIN call.stmts : call.stmts[i] \notin Mutating
    /\ tableRows = call.before

\* an Update with a valid update set on a table that does not exist failed
C15_Witness ==
  /\ call.op = "Update" /\ ~tableExists /\ call.out = "panic"
  /\ call.update # <<>>
  /\ \A f \in DOMAIN call.update : ~InvalidEntry(elem, call.update, f)
  /\ ValidFilter(elem, call.args.andFilter)

\* what Find panics with when the table exists and the query is malformed:
\* an ordering with a direction the store does not know
MalformedCondition ==
  Find(elem, TRUE, tableCols, <<>>, 0,
       FindArgs(<<>>, <<>>, <<<<elem[1].name, UP>>>>, 0)).msg

\* C16 (table not found is told apart): a Find whose table does not exist
\* fails with the condition that the table was not found, which is another
\* condition than the one Find reports for a malformed query.
C16_TableNotFoundDistinct ==
  (/\ call.op = "Find" /\ ~tableExists
   /\ call.args.projection = <<>>
   /\ ValidFilter(elem, call.args.andFilter)
   /\ ValidOrdering(elem, call.args.orderBy)) =>
    /\ call.out = "panic"
    /\ call.msg = TableNotFound
    /\ call.msg # MalformedCondition

\* the operator codes of the documentation of Filter
DocumentedCodes == {"lt", "gt", "eq", "neq", "leq", "geq", "in", "nin"}

\* the filter of the call has a condition with a code that is not documented
UnknownCode ==
  \E k \in FilterKeys(call.args.andFilter) : k[2] \notin DocumentedCodes

\* C17 (unknown operator code): Find, Delete and Update fail whenever the
\* filter has an operator code outside lt, gt, eq, neq, leq, geq, in, nin,
\* whatever its other conditions are; no mutating statement is sent and no
\* stored row changes.
C17_UnknownOperatorFails ==
  (call.op \in {"Find", "Delete", "Update"} /\ UnknownCode) =>
    /\ call.out = "panic"
    /\ \A i \in DOMAIN call.stmts : call.stmts[i] \notin Mutating
    /\ tableRows = call.before

\* a Delete on a table with rows, with a condition that every row meets and a
\* condition with an unknown code, stopped by the unknown code
C17_Witness ==
  /\ call.op = "Delete" /\ tableExists /\ tableRows # <<>>
  /\ UnknownCode
  /\ \E k \in FilterKeys(call.args.andFilter) :
       /\ k[2] \in DocumentedCodes
       /\ Matching(elem, call.before,
                   k[1] :> (k[2] :> call.args.andFilter[k[1]][k[2]]))
            = DOMAIN call.before
  /\ call.out = "panic" /\ call.msg = InvalidOperator
  /\ call.stmts = <<"select">>

\* the name is made of capitals only
AllCapitals(name) == \A i \in DOMAIN name : IsUpper(name[i])

\* C18 (translation of identifiers): translating a translated identifier
\* changes nothing, the translation has no upper-case letter, a run of
\* capitals is kept together, and ID gives id, UserName gives user_name,
\* UserComment gives user_comment.
C18_TranslationCanonical ==
  call.op \in {"camelToSnake", "TableName"} =>
    /\ camelToSnake(call.snake) = call.snake
    /\ \A i \in DOMAIN call.snake : ~IsUpper(call.snake[i])
    /\ AllCapitals(call.name) => call.snake = ToLower(call.name)
    /\ call.name = ID => call.snake = <<"i","d">>
    /\ call.name = UserName => call.snake = <<"u","s","e","r","_","n","a","m","e">>
    /\ call.name = UserComment =>
         call.snake = <<"u","s","e","r","_","c","o","m","m","e","n","t">>

\* the name of a type with two words has been translated, with one
\* underscore put between the words
C18_Witness ==
  /\ call.op = "TableName" /\ call.name = UserComment
  /\ Len(call.snake) = Len(call.name) + 1
  /\ call.snake[5] = "_"

\* C19 (cursors are released): every cursor opened by Find, by First and by
\* the probe of Create, Delete and Update is closed when the operation has
\* returned or failed, so between two operations no cursor is open.
C19_NoCursorLeftOpen ==
  call.op \in {"Find", "First", "Create", "Delete", "Update"} => call.open = 0

\* a Find that got its rows from a table with rows and failed before it
\* read any of them
C19_Witness ==
  /\ call.op = "Find" /\ tableExists /\ call.before # <<>>
  /\ call.stmts = <<"select">>
  /\ call.out = "panic" /\ call.msg = RuntimePanic
  /\ call.open = 0

\* a First that returned its record with a row of the answer still unread
FirstLeftRowsUnread ==
  /\ call.op = "First" /\ call.out = "ok" /\ call.count = 1
  /\ Len(call.before) > 1
  /\ call.open = 0

\* the sequences with the elements of s in another order
PermutationsOf(s) ==
  {[i \in DOMAIN s |-> s[p[i]]] :
     p \in {q \in [DOMAIN s -> DOMAIN s] : \A i, j \in DOMAIN s : q[i] = q[j] => i = j}}

\* C20 (the order of the projection does not matter): for a projection of
\* names of the record type, Find with the names listed in any other order
\* ends the same way and returns the same sequence of records.
C20_ProjectionOrderIrrelevant ==
  (/\ call.op = "Find"
   /\ \A i \in DOMAIN call.args.projection : HasField(elem, call.args.projection[i])) =>
    \A other \in PermutationsOf(call.args.projection) :
      LET again == Find(elem, tableExists, tableCols, call.before, lastRowid,
                        [call.args EXCEPT !.projection = other])
      IN  /\ again.out = call.out
          /\ again.result = call.result

\* a Find that returned records for two names of the shape listed against
\* the declared order of the fields
C20_Witness ==
  /\ call.op = "Find" /\ call.out = "ok" /\ call.result # <<>>
  /\ Len(call.args.projection) = 2
  /\ InShape(elem, call.args.projection[1])
  /\ InShape(elem, call.args.projection[2])
  /\ FieldIndex(elem, call.args.projection[1]) > FieldIndex(elem, call.args.projection[2])
  /\ \A i \in DOMAIN call.result : call.result[i] = RecordOf(elem, call.before[i])

\* the call was a Find with a valid filter that has a condition, a valid
\* ordering and a limit that is positive, and no projection
FullFind ==
  /\ call.op = "Find" /\ tableExists
  /\ call.args.projection = <<>>
  /\ FilterKeys(call.args.andFilter) # {} /\ ValidFilter(elem, call.args.andFilter)
  /\ call.args.orderBy # <<>> /\ ValidOrdering(elem, call.args.orderBy)
  /\ call.args.limit > 0

\* the sequence has no record that comes before an earlier one
Sorted(type, orderBy, s) ==
  \A i, j \in DOMAIN s : i < j => ~Precedes(type, orderBy, s[j], s[i])

\* Find returned the first min(limit, m) records of the m records that
\* satisfy the filter put in the order of the ordering
FirstOfSortedMatching ==
  LET kept == Pick(call.before, Matching(elem, call.before, call.args.andFilter), 1)
      records == AllRecords(elem, kept)
      m == Len(records)
      n == IF call.args.limit < m THEN call.args.limit ELSE m
  IN  /\ call.out = "ok"
      /\ \E s \in PermutationsOf(records) :
           /\ Sorted(elem, call.args.orderBy, s)
           /\ call.result = SubSeq(s, 1, n)

\* C21 (filter, then ordering, then limit): a Find with a filter, an ordering
\* and a limit n returns the first min(n, m) records of the sorted sequence
\* of the m rows that satisfy the filter.
C21_FilterOrderLimit == FullFind => FirstOfSortedMatching

\* the same for the record types all of whose fields are visible and the
\* filters without a quote in a string operand
NoQuoteInOperands(andFilter) ==
  \A k \in FilterKeys(andFilter) :
    \A i \in DOMAIN andFilter[k[1]][k[2]] :
      \A c \in DOMAIN andFilter[k[1]][k[2]][i].s : andFilter[k[1]][k[2]][i].s[c] # QUOTE

FilterOrderLimitOfPlainCalls ==
  (FullFind /\ AllVisible(elem) /\ NoQuoteInOperands(call.args.andFilter)) =>
    FirstOfSortedMatching

\* a Find with limit 1 over two rows that both satisfy the filter returned
\* the record of the second row, which the ordering puts first
LimitAfterOrdering ==
  /\ FullFind /\ call.out = "ok" /\ call.args.limit = 1
  /\ Len(call.before) = 2
  /\ Matching(elem, call.before, call.args.andFilter) = {1, 2}
  /\ call.result = <<RecordOf(elem, call.before[2])>>
  /\ call.before[1] # call.before[2]

\* a Find with limit 1 over two rows of which the first does not satisfy the
\* filter returned the record of the second
LimitAfterFilter ==
  /\ FullFind /\ call.out = "ok" /\ call.args.limit = 1
  /\ Matching(elem, call.before, call.args.andFilter) = {2}
  /\ call.result = <<RecordOf(elem, call.before[2])>>

\* the value of the field in the row, found by the name of its column
ColumnValue(type, cols, row, i) ==
  FieldValue(type[i].type, row[ColIndex(cols, Snake(type[i].name))])

\* the fields a Find with the projection selects: all without a projection
SelectedFields(type, projection) ==
  {i \in DOMAIN type : projection = <<>> \/ \E k \in DOMAIN projection : projection[k] = type[i].name}

\* the call was a Find of all rows that returned
FindOfAllRows ==
  /\ call.op = "Find" /\ call.out = "ok"
  /\ DOMAIN call.args.andFilter = {} /\ call.args.orderBy = <<>> /\ call.args.limit <= 0

\* C22 (no record from a row that was not read): when Find returns, each
\* record it returns has in its selected fields the values of the columns of
\* the row the store returned for it; a row that cannot be scanned makes the
\* call fail.
C22_RecordsAreRowsRead ==
  FindOfAllRows =>
    /\ Len(call.result) = Len(call.before)
    /\ \A r \in DOMAIN call.result :
         \A i \in SelectedFields(elem, call.args.projection) :
           call.result[r][i] = ColumnValue(elem, tableCols, call.before[r], i)

\* the row Create is to store for the struct: its visible fields
RowOf(type, model) ==
  Pick([i \in DOMAIN type |-> Bind(model[i])],
       {i \in DOMAIN type : IsVisible(type[i].name)}, 1)

\* C23 (fields that are not visible take no part): for a record type with a
\* field that is not visible, Create succeeds and stores the visible fields
\* only, and Find without projection succeeds and returns the records of the
\* rows, the field that is not visible left at its zero value.
C23_HiddenFieldsTakeNoPart ==
  (~AllVisible(elem) /\ tableExists) =>
    /\ call.op = "Create" =>
         /\ call.out = "ok"
         /\ tableRows = Append(call.before, RowOf(elem, call.model))
    /\ (call.op = "Find" /\ UnfilteredCall) =>
         /\ call.out = "ok"
         /\ call.result = AllRecords(elem, call.before)

\* the field is externally visible: its name begins with an upper-case letter
Exported(name) == IsUpper(name[1])

\* C24 (column names): the list of column names has one translated name for
\* each externally visible field of the record type, in the order the fields
\* are declared in, and no entry for a field that is not visible.
C24_ColumnNamesOfVisibleFields ==
  call.op \in {"columnNames", "ColumnNames"} =>
    call.cols = Pick([i \in DOMAIN elem |-> camelToSnake(elem[i].name)],
                     {i \in DOMAIN elem : Exported(elem[i].name)}, 1)

\* the same for the structs whose field names all begin with a letter
ColumnNamesOfLetterInitials ==
  (/\ call.op \in {"columnNames", "ColumnNames"}
   /\ \A i \in DOMAIN elem : IsUpper(elem[i].name[1]) \/ IsLower(elem[i].name[1])) =>
    call.cols = Pick([i \in DOMAIN elem |-> camelToSnake(elem[i].name)],
                     {i \in DOMAIN elem : Exported(elem[i].name)}, 1)

\* C30 (no two fields share a column): the list of column names of a record
\* type has no name twice, so two distinct visible fields never translate to
\* one column.
C30_ColumnNamesDistinct ==
  call.op \in {"columnNames", "ColumnNames"} =>
    \A i, j \in DOMAIN call.cols : call.cols[i] = call.cols[j] => i = j

\* First returned false and set nothing when the table had no rows, and
\* returned true and set its argument to the record of the first row else
FirstRowReturned ==
  /\ call.out = "ok"
  /\ IF call.before = <<>>
     THEN call.count = 0 /\ call.result = <<>>
     ELSE call.count = 1 /\ call.result = <<RecordOf(elem, call.before[1])>>

\* C25 (First): First returns false and leaves its argument as it is when
\* the table has no rows; else it returns true and sets its argument to the
\* first stored row, whatever rows were inserted after that row.
C25_FirstReturnsFirstRow ==
  (call.op = "First" /\ tableExists) => FirstRowReturned

\* the same for the record types all of whose fields are visible
FirstOfVisibleTypes ==
  (call.op = "First" /\ tableExists /\ AllVisible(elem)) => FirstRowReturned

\* First returned the first of two rows that differ
FirstOfTwoRows ==
  /\ call.op = "First" /\ call.count = 1 /\ Len(call.before) = 2
  /\ call.before[1] # call.before[2]
  /\ call.result = <<RecordOf(elem, call.before[1])>>

\* C26 (the fragment of a filter without conditions): for a filter that
\* holds no condition, also one whose fields have operator maps without
\* entries, the predicate builder returns the empty fragment; for any other
\* it returns a fragment with a condition; it never returns WHERE followed
\* by nothing.
C26_NoEmptyWhere ==
  call.op \in {"Find", "Delete", "Update"} =>
    LET built == buildWhereString(call.args.andFilter)
    IN  ~built.panic =>
          /\ FilterKeys(call.args.andFilter) = {} => built.where = NoWhere
          /\ FilterKeys(call.args.andFilter) # {} =>
               built.where.present /\ built.where.conds # {}
          /\ ~(built.where.present /\ built.where.conds = {})

\* the same for the filters without a field whose operator map is empty
NoEmptyWhereOfAddFilter ==
  (/\ call.op \in {"Find", "Delete", "Update"}
   /\ \A f \in DOMAIN call.args.andFilter : DOMAIN call.args.andFilter[f] # {}) =>
    LET built == buildWhereString(call.args.andFilter)
    IN  ~built.panic =>
          IF FilterKeys(call.args.andFilter) = {} THEN built.where = NoWhere
          ELSE built.where.present /\ built.where.conds # {}

\* the names of the visible fields of the type, in declared order
VisibleNames(type) ==
  Pick([i \in DOMAIN type |-> type[i].name],
       {i \in DOMAIN type : IsVisible(type[i].name)}, 1)

\* the Find of the call made again with every visible field in the projection
WithFullProjection ==
  Find(elem, tableExists, tableCols, call.before, lastRowid,
       [call.args EXCEPT !.projection = VisibleNames(elem)])

\* C27 (no projection is the full projection): a Find without projection
\* returns the records a Find with every visible field in its projection
\* returns, also on a table whose columns are in another order than the
\* fields of the record type.
C27_NoProjectionIsFullProjection ==
  (call.op = "Find" /\ tableExists /\ call.args.projection = <<>>) =>
    /\ call.out = WithFullProjection.out
    /\ call.result = WithFullProjection.result

\* the same on the tables whose columns are in the order of the fields
NoProjectionInDeclaredOrder ==
  (/\ call.op = "Find" /\ tableExists /\ call.args.projection = <<>>
   /\ tableCols = SchemaOf(elem)) =>
    /\ call.out = WithFullProjection.out
    /\ call.result = WithFullProjection.result

\* C28 (a failed Create inserts nothing): when Create fails, because the
\* table is missing, the store rejects the insert or the record cannot be
\* written back, the table holds the rows it held before the call.
C28_FailedCreateInsertsNothing ==
  (call.op = "Create" /\ call.out = "panic") => tableRows = call.before

\* the same for the record types all of whose fields are visible
FailedCreateOfVisibleTypes ==
  (call.op = "Create" /\ call.out = "panic" /\ AllVisible(elem)) =>
    tableRows = call.before

\* a Create failed for want of the table
CreateFailedWithoutTable ==
  call.op = "Create" /\ call.out = "panic" /\ ~tableExists /\ AllVisible(elem)

\* the names of the projection, each once, in declared order
WithoutDuplicates(type, projection) ==
  Pick([i \in DOMAIN type |-> type[i].name],
       {i \in DOMAIN type : \E k \in DOMAIN projection : projection[k] = type[i].name}, 1)

\* the call was a Find with a projection of names of the shape
ProjectionOfShape ==
  /\ call.op = "Find" /\ tableExists
  /\ call.args.projection # <<>>
  /\ \A k \in DOMAIN call.args.projection : InShape(elem, call.args.projection[k])

\* Find took the projection, and returned what it returns for the names of
\* the projection listed once each
TakenAsWithoutDuplicates ==
  LET once == Find(elem, tableExists, tableCols, call.before, lastRowid,
                   [call.args EXCEPT
                      !.projection = WithoutDuplicates(elem, call.args.projection)])
  IN  /\ call.msg # InvalidProjection
      /\ call.out = once.out
      /\ call.result = once.result

\* C29 (projections with a name twice): a Find whose projection names only
\* fields of the shape does not fail the validation of the projection, also
\* when a name is listed more than once, and returns the records of the
\* projection without the duplicates.
C29_DuplicatesInProjection == ProjectionOfShape => TakenAsWithoutDuplicates

\* the same for the projections that list no name twice
ProjectionWithoutDuplicates ==
  (/\ ProjectionOfShape
   /\ \A i, j \in DOMAIN call.args.projection :
        call.args.projection[i] = call.args.projection[j] => i = j) =>
    TakenAsWithoutDuplicates

====
